---------------------------- MODULE Spec2Model ----------------------------
(***************************************************************************)
(* A model of src/plainc/main.c: the regex lexer (advance), the recursive  *)
(* descent parser that builds the Thompson NFA, the subset construction    *)
(* (nfa_to_dfa), the partition-refinement minimizer (minimize_dfa) and the *)
(* table emitter (emit_dfa_state_table).                                   *)
(*                                                                         *)
(* Characters are their ASCII codes.  Vectors are sequences; the C index i *)
(* of a vector is position i + 1 of the sequence.  A pointer to an NFA     *)
(* node is the slot of state->nfa.data that holds it, a pointer to a DFA   *)
(* node is its position in the dfa vector, NULL is -1.                     *)
(***************************************************************************)
EXTENDS Integers, Sequences, FiniteSets

VARIABLES
  src,         \* the regex source, without its terminating NUL
  pc,          \* where main() is
  lx,          \* the lexer's state (the lexer specification)
  nfa,         \* what thompson() returned
  dfa,         \* the dfa vector of nfa_to_dfa
  work,        \* the work vector of nfa_to_dfa
  id,          \* the id counter of nfa_to_dfa
  partitions,  \* the partitions vector of minimize_dfa
  pi,          \* the index i of the refinement loop
  result,      \* what minimize_dfa returned
  table        \* the rows emit_dfa_state_table printed

vars == <<src, pc, lx, nfa, dfa, work, id, partitions, pi, result, table>>

(***************************************************************************)
(* Program constants                                                       *)
(***************************************************************************)
NULL == -1
\* the value of a local pointer that was declared and never assigned
UNINIT == -3
EDGE_CHARACTER_CLASS == -2
EDGE_EPSILON == 0
ANCHOR_NONE == 0
ANCHOR_BOL == 1
ANCHOR_EOL == 2
\* the exclusive upper limit of the character loops: for (c = ..; c < 0x7F; ++c)
CODE_LIMIT == 127
\* the first id handed out: char id = 'A'
FIRST_ID == 65

\* the codes of the characters the code names
CH == [nul |-> 0, tab |-> 9, lf |-> 10, cr |-> 13, space |-> 32, dquote |-> 34,
       dollar |-> 36, lparen |-> 40, rparen |-> 41, star |-> 42, plus |-> 43,
       dash |-> 45, dot |-> 46, question |-> 63, lbracket |-> 91,
       backslash |-> 92, rbracket |-> 93, carat |-> 94, pipe |-> 124,
       a |-> 97, b |-> 98, c |-> 99, n |-> 110, r |-> 114, t |-> 116,
       zero |-> 48, nine |-> 57, hash |-> 35]

(***************************************************************************)
(* Bounds of the model                                                     *)
(***************************************************************************)
\* the longest enumerated source string
MaxLen == 3
\* how many bytes behind the terminating NUL the lexer model can read
MaxOver == 3

Max(x, y) == IF x > y THEN x ELSE y

RECURSIVE Strings(_, _)
Strings(alphabet, n) ==
  IF n = 0 THEN {<<>>}
  ELSE LET shorter == Strings(alphabet, n - 1)
       IN  shorter \cup {Append(s, ch) : s \in shorter, ch \in alphabet}

(***************************************************************************)
(* Lexer                                                                   *)
(***************************************************************************)
regex_token_from_char(ch) ==
  CASE ch = CH.dollar    -> "tok_dollar"
    [] ch = CH.lparen    -> "tok_left_paren"
    [] ch = CH.rparen    -> "tok_right_paren"
    [] ch = CH.star      -> "tok_star"
    [] ch = CH.plus      -> "tok_plus"
    [] ch = CH.dash      -> "tok_dash"
    [] ch = CH.dot       -> "tok_dot"
    [] ch = CH.question  -> "tok_question_mark"
    [] ch = CH.lbracket  -> "tok_left_bracket"
    [] ch = CH.rbracket  -> "tok_right_bracket"
    [] ch = CH.carat     -> "tok_carat"
    [] ch = CH.pipe      -> "tok_pipe"
    [] OTHER             -> "tok_literal"

\* The lexer's part of nfa_parser_state_t.  input is a position of the
\* memory m that holds the source: m[input] is *state->input.  status is
\* "ok" until the program exits ("exit") or its behaviour is undefined ("ub").
LexInit(m) ==
  [m |-> m, input |-> 1, in_quote |-> FALSE,
   current_token |-> "tok_eoi", current_lexeme |-> CH.nul, status |-> "ok"]

\* a read of the byte at position p lies inside the modelled memory
Readable(st, p) == p >= 1 /\ p <= Len(st.m)

\* esc(&input): the position of the byte it returns, and that byte decoded
escPos(st, p) == IF st.m[p] = CH.backslash THEN p + 1 ELSE p

escChar(st, p) ==
  LET q == escPos(st, p)
  IN  IF st.m[p] = CH.backslash
      THEN CASE st.m[q] = CH.t -> CH.tab
             [] st.m[q] = CH.n -> CH.lf
             [] st.m[q] = CH.r -> CH.cr
             [] OTHER          -> st.m[q]
      ELSE st.m[q]

Eoi(st) == [st EXCEPT !.current_token = "tok_eoi", !.current_lexeme = CH.nul]

advance(st) ==
  IF st.status # "ok" THEN st
  ELSE IF ~Readable(st, st.input) THEN [st EXCEPT !.status = "ub"]
  ELSE IF st.m[st.input] = CH.nul THEN Eoi(st)
  ELSE
    LET quote == st.m[st.input] = CH.dquote
        s1 == IF quote
              THEN [st EXCEPT !.in_quote = ~st.in_quote, !.input = st.input + 1]
              ELSE st
    IN  IF quote /\ s1.m[s1.input] = CH.nul THEN Eoi(s1)
        ELSE
          LET saw_esc == s1.m[s1.input] = CH.backslash
              s2 == IF ~s1.in_quote
                    THEN [s1 EXCEPT !.current_lexeme = escChar(s1, s1.input),
                                    !.input = escPos(s1, s1.input) + 1]
                    ELSE IF saw_esc /\ s1.m[s1.input + 1] = CH.dquote
                    THEN [s1 EXCEPT !.input = s1.input + 2,
                                    !.current_lexeme = CH.dquote]
                    ELSE [s1 EXCEPT !.current_lexeme = s1.m[s1.input],
                                    !.input = s1.input + 1]
          IN  [s2 EXCEPT !.current_token =
                 IF s2.in_quote \/ saw_esc
                 THEN "tok_literal"
                 ELSE regex_token_from_char(s2.current_lexeme)]


(***************************************************************************)
(* NFA arena                                                               *)
(***************************************************************************)
\* malloc + memset(0) + bitset_create(), with index set
NewNode(idx) ==
  [next |-> <<NULL, NULL>>, edge |-> EDGE_EPSILON, bitset |-> {},
   complement |-> FALSE, anchor |-> ANCHOR_NONE, index |-> idx]

\* state->nfa.data[i] = NULL: the slot holds no node
NoNode == [NewNode(NULL) EXCEPT !.index = NULL]

ParserInit(m) ==
  [m |-> m, input |-> 1, in_quote |-> FALSE,
   current_token |-> "tok_eoi", current_lexeme |-> CH.nul, status |-> "ok",
   nfa |-> <<>>, discard_stack |-> <<>>]

\* the pointer p can be dereferenced: it is a live node of the arena
Valid(st, p) == p >= 0 /\ p < Len(st.nfa) /\ st.nfa[p + 1] # NoNode

Ub(st) == [st EXCEPT !.status = "ub"]

\* the slot alloc_nfa will hand out
allocIndex(st) ==
  IF Len(st.discard_stack) = 0
  THEN Len(st.nfa)
  ELSE st.discard_stack[Len(st.discard_stack)]

alloc_nfa(st) ==
  IF Len(st.discard_stack) = 0
  THEN [st EXCEPT !.nfa = Append(@, NewNode(Len(@)))]
  ELSE LET discarded == st.discard_stack[Len(st.discard_stack)]
       IN  [st EXCEPT
             !.discard_stack = SubSeq(@, 1, Len(@) - 1),
             !.nfa[discarded + 1] = NewNode(discarded)]

discard_nfa(st, node) ==
  LET index == st.nfa[node + 1].index
  IN  [st EXCEPT !.discard_stack = Append(@, index),
                 !.nfa[index + 1] = NoNode]

\* p->next[j] = q
SetNext(st, p, j, q) ==
  IF st.status # "ok" THEN st
  ELSE IF ~Valid(st, p) THEN Ub(st)
  ELSE [st EXCEPT !.nfa[p + 1].next[j + 1] = q]

(***************************************************************************)
(* Parser: every production returns the parser state and the values of     *)
(* *sptr and *eptr (s, e); the latter keep the values passed in when the   *)
(* production does not assign them.                                        *)
(***************************************************************************)
R(st, s, e) == [st |-> st, s |-> s, e |-> e]

first_in_cat(token) ==
  CASE token \in {"tok_right_paren", "tok_dollar", "tok_pipe", "tok_eoi"}
         -> "false"
    [] token \in {"tok_star", "tok_plus", "tok_question_mark",
                  "tok_right_bracket", "tok_carat"}
         -> "exit"
    [] OTHER -> "true"

RECURSIVE do_dash(_, _, _)
do_dash(st, node, first) ==
  IF st.status # "ok" THEN st
  ELSE IF st.current_token \in {"tok_eoi", "tok_right_bracket"} THEN st
  ELSE IF st.current_token # "tok_dash"
  THEN do_dash(advance([st EXCEPT !.nfa[node + 1].bitset =
                                     @ \cup {st.current_lexeme}]),
               node, st.current_lexeme)
  ELSE LET a == advance(st)
       IN  IF a.status # "ok" THEN a
           ELSE IF first = UNINIT THEN Ub(a)
           ELSE do_dash(advance([a EXCEPT !.nfa[node + 1].bitset =
                                             @ \cup (first .. a.current_lexeme)]),
                        node, Max(first, a.current_lexeme + 1))

\* The productions are mutually recursive: each is entered through parse,
\* which selects the production's body by name.
RECURSIVE parse(_, _, _, _)

expr(st, s, e) == parse("expr", st, s, e)

exprLoop(st, s, e) == parse("exprLoop", st, s, e)

cat_expr(st, s, e) == parse("cat_expr", st, s, e)

catLoop(st, s, e) == parse("catLoop", st, s, e)

factor(st, s, e) == parse("factor", st, s, e)

term(st, s, e) == parse("term", st, s, e)

rule(st) == parse("rule", st, NULL, NULL)

machineLoop(st, p) == parse("machineLoop", st, p, NULL)

\* start->bitset gets '\n' and '\r', start->complement = true
negated(st, start) ==
  IF st.status # "ok" THEN st
  ELSE [st EXCEPT !.nfa[start + 1].bitset = @ \cup {CH.lf, CH.cr},
                  !.nfa[start + 1].complement = TRUE]

\* lines 357-363: st is the state at the first token of the class body
classBody(st, start) ==
  IF st.status # "ok" THEN st
  ELSE IF st.current_token # "tok_right_bracket"
  THEN do_dash(st, start, UNINIT)
  ELSE [st EXCEPT !.nfa[start + 1].bitset = @ \cup (CH.nul .. CH.space)]

\* lines 350-356: st is the state after the advance() past '['
classStart(st, start) ==
  IF st.status = "ok" /\ st.current_token = "tok_carat"
  THEN classBody(negated(advance(st), start), start)
  ELSE classBody(st, start)

\* lines 338-366: st has start and end allocated and start->next[0] = end
termLeaf(st, start, end) ==
  IF st.current_token \notin {"tok_dot", "tok_left_bracket"}
  THEN R(advance([st EXCEPT !.nfa[start + 1].edge = st.current_lexeme]),
         start, end)
  ELSE IF st.current_token = "tok_dot"
  THEN R(advance(negated([st EXCEPT
                            !.nfa[start + 1].edge = EDGE_CHARACTER_CLASS,
                            !.nfa[start + 1].bitset = {}], start)),
         start, end)
  ELSE R(advance(classStart(advance([st EXCEPT
                            !.nfa[start + 1].edge = EDGE_CHARACTER_CLASS,
                            !.nfa[start + 1].bitset = {}]), start)),
         start, end)

\* lines 328-333: x is what expr returned inside the parentheses
termParen(x) ==
  IF x.st.status # "ok" THEN x
  ELSE IF x.st.current_token = "tok_right_paren"
  THEN R(advance(x.st), x.s, x.e)
  ELSE R([x.st EXCEPT !.status = "exit"], x.s, x.e)

termBody(st, s, e) ==
  IF st.status # "ok" THEN R(st, s, e)
  ELSE IF st.current_token = "tok_left_paren"
  THEN termParen(expr(advance(st), s, e))
  ELSE termLeaf(SetNext(alloc_nfa(alloc_nfa(st)), allocIndex(st), 0,
                        allocIndex(alloc_nfa(st))),
                allocIndex(st), allocIndex(alloc_nfa(st)))

\* lines 308-319: st has start and end allocated; s, e are *sptr, *eptr
postfix(st, tok, start, end, s, e) ==
  LET b1 == SetNext(SetNext(st, start, 0, s), e, 0, end)
      b2 == IF tok \in {"tok_star", "tok_question_mark"}
            THEN SetNext(b1, start, 1, end) ELSE b1
      b3 == IF tok \in {"tok_star", "tok_plus"}
            THEN SetNext(b2, e, 1, s) ELSE b2
  IN  R(advance(b3), start, end)

\* lines 304-320: t is what term returned
factorRest(t) ==
  IF t.st.status # "ok" THEN t
  ELSE IF t.st.current_token \in {"tok_star", "tok_plus", "tok_question_mark"}
  THEN postfix(alloc_nfa(alloc_nfa(t.st)), t.st.current_token,
               allocIndex(t.st), allocIndex(alloc_nfa(t.st)), t.s, t.e)
  ELSE t

factorBody(st, s, e) == factorRest(term(st, s, e))

\* lines 268-270: f is what factor returned for e2_start, e2_end
\* memcpy(*eptr, e2_start, sizeof(nfa_node_t)); discard_nfa; *eptr = e2_end
catJoin(f, s, e) ==
  IF f.st.status # "ok" THEN f
  ELSE IF ~Valid(f.st, e) \/ ~Valid(f.st, f.s) THEN R(Ub(f.st), s, e)
  ELSE catLoop(discard_nfa([f.st EXCEPT !.nfa[e + 1] = f.st.nfa[f.s + 1]], f.s),
               s, f.e)

\* lines 264-271
catLoopBody(st, s, e) ==
  IF st.status # "ok" THEN R(st, s, e)
  ELSE IF first_in_cat(st.current_token) = "exit"
  THEN R([st EXCEPT !.status = "exit"], s, e)
  ELSE IF first_in_cat(st.current_token) = "false" THEN R(st, s, e)
  ELSE catJoin(factor(st, UNINIT, UNINIT), s, e)

catRest(f) == catLoop(f.st, f.s, f.e)

cat_exprBody(st, s, e) ==
  IF st.status # "ok" THEN R(st, s, e)
  ELSE IF first_in_cat(st.current_token) = "exit"
  THEN R([st EXCEPT !.status = "exit"], s, e)
  ELSE IF first_in_cat(st.current_token) = "true"
  THEN catRest(factor(st, s, e))
  ELSE catLoop(st, s, e)

\* lines 248-255: c is what cat_expr returned for e2_start, e2_end
exprAlt(c, s, e) ==
  LET p == allocIndex(c.st)
      \* p->next[1] = e2_start and p->next[0] = *sptr read the two pointers
      b1 == IF c.s = UNINIT \/ s = UNINIT
            THEN Ub(c.st)
            ELSE SetNext(SetNext(alloc_nfa(c.st), p, 1, c.s), p, 0, s)
      q == allocIndex(b1)
  IN  IF c.st.status # "ok" THEN c
      ELSE IF b1.status # "ok" THEN R(b1, s, e)
      ELSE exprLoop(SetNext(SetNext(alloc_nfa(b1), e, 0, q), c.e, 0, q), p, q)

\* lines 243-256
exprLoopBody(st, s, e) ==
  IF st.status # "ok" \/ st.current_token # "tok_pipe" THEN R(st, s, e)
  ELSE exprAlt(cat_expr(advance(st), UNINIT, UNINIT), s, e)

exprRest(c) == exprLoop(c.st, c.s, c.e)

exprBody(st, s, e) == exprRest(cat_expr(st, s, e))

\* lines 235-237: end->anchor = anchor; advance(state); return start
ruleEnd(st, start, end, anchor) ==
  IF st.status # "ok" THEN [st |-> st, ret |-> NULL]
  ELSE IF ~Valid(st, end) THEN [st |-> Ub(st), ret |-> NULL]
  ELSE [st |-> advance([st EXCEPT !.nfa[end + 1].anchor = anchor]),
        ret |-> start]

\* lines 225-232: st is the state after the advance() past '$'
ruleEol(st, start, end, anchor) ==
  IF st.status # "ok" THEN [st |-> st, ret |-> NULL]
  ELSE IF ~Valid(st, end) THEN [st |-> Ub(st), ret |-> NULL]
  ELSE ruleEnd([SetNext(alloc_nfa(st), end, 0, allocIndex(st)) EXCEPT
                  !.nfa[end + 1].edge = EDGE_CHARACTER_CLASS,
                  !.nfa[end + 1].bitset = {CH.lf, CH.cr}],
               start, allocIndex(st), anchor + ANCHOR_EOL)

\* lines 224-237: st is the state after expr, with start and end
ruleRest(st, start, end, anchor) ==
  IF st.status # "ok" THEN [st |-> st, ret |-> NULL]
  ELSE IF st.current_token = "tok_dollar"
  THEN ruleEol(advance(st), start, end, anchor)
  ELSE ruleEnd(st, start, end, anchor)

\* lines 215-219: x is what expr(state, &start->next[0], &end) returned
ruleBol(x, start) == ruleRest(SetNext(x.st, start, 0, x.s), start, x.e, ANCHOR_BOL)

\* line 221: x is what expr(state, &start, &end) returned
rulePlain(x) == ruleRest(x.st, x.s, x.e, ANCHOR_NONE)

\* rule returns the parser state and the node it returns (ret)
ruleBody(st) ==
  IF st.status # "ok" THEN [st |-> st, ret |-> NULL]
  ELSE IF st.current_token = "tok_carat"
  THEN ruleBol(expr(advance([alloc_nfa(st) EXCEPT
                               !.nfa[allocIndex(st) + 1].edge = CH.lf]),
                    NULL, NULL),
               allocIndex(st))
  ELSE rulePlain(expr(st, NULL, NULL))

\* p->next[0] = rule(state), then the loop of lines 202-206
machineLink(r, p) == machineLoop(SetNext(r.st, p, 0, r.ret), p)

machineLoopBody(st, p) ==
  IF st.status # "ok" \/ st.current_token = "tok_eoi" THEN st
  ELSE machineLink(rule(SetNext(alloc_nfa(st), p, 1, allocIndex(st))),
                   allocIndex(st))

parse(fn, st, s, e) ==
  CASE fn = "term" -> termBody(st, s, e)
    [] fn = "factor" -> factorBody(st, s, e)
    [] fn = "catLoop" -> catLoopBody(st, s, e)
    [] fn = "cat_expr" -> cat_exprBody(st, s, e)
    [] fn = "exprLoop" -> exprLoopBody(st, s, e)
    [] fn = "expr" -> exprBody(st, s, e)
    [] fn = "rule" -> ruleBody(st)
    [] fn = "machineLoop" -> machineLoopBody(st, s)

\* machine returns the parser state; the node it returns is slot 0, the
\* first node allocated
machine(st) == machineLink(rule(advance(alloc_nfa(st))), 0)

\* the loop of lines 440-444: index = slot for every node left
reindexed(n) ==
  [k \in 1..Len(n) |->
     IF n[k] = NoNode THEN NoNode ELSE [n[k] EXCEPT !.index = k - 1]]

thompsonResult(st) ==
  [status |-> st.status, nfa |-> reindexed(st.nfa), start |-> 0]

\* thompson(input): [status, nfa, start]
thompson(m) == thompsonResult(machine(ParserInit(m)))

(***************************************************************************)
(* Subset construction                                                     *)
(***************************************************************************)
\* #define bitset_equals(b1, b2)
\*   bitset_intersection_count(b1, b2) == bitset_count(b1)
bitset_equals(b1, b2) == Cardinality(b1 \cap b2) = Cardinality(b1)

\* malloc(sizeof(dfa_node_t)) with bitset set and both vectors initialised;
\* id, partition and index are not assigned by the allocation
NewDfaNode(bitset) ==
  [bitset |-> bitset, id |-> UNINIT, next |-> <<>>, chars |-> <<>>,
   partition |-> UNINIT, index |-> UNINIT]

\* the worklist loop of epsilon_closure: stack holds NFA indices
RECURSIVE closureLoop(_, _, _)
closureLoop(n, input, stack) ==
  IF Len(stack) = 0 THEN input
  ELSE LET i == stack[Len(stack)]
           rest == SubSeq(stack, 1, Len(stack) - 1)
           p == n[i + 1]
           n0 == p.next[1]
           n1 == p.next[2]
           add0 == p.edge = EDGE_EPSILON /\ n0 # NULL /\ n0 \notin input
           in0 == IF add0 THEN input \cup {n0} ELSE input
           st0 == IF add0 THEN Append(rest, n0) ELSE rest
           add1 == p.edge = EDGE_EPSILON /\ n1 # NULL /\ n1 \notin in0
       IN  closureLoop(n,
                       IF add1 THEN in0 \cup {n1} ELSE in0,
                       IF add1 THEN Append(st0, n1) ELSE st0)

RECURSIVE AscendingSeq(_)
\* the members of a set of integers, smallest first
AscendingSeq(S) ==
  IF S = {} THEN <<>>
  ELSE LET m == CHOOSE x \in S : \A y \in S : x <= y
       IN  <<m>> \o AscendingSeq(S \ {m})

\* epsilon_closure(nfa, input)->bitset
epsilon_closure(n, input) ==
  closureLoop(n, input, AscendingSeq({i \in input : i < Len(n)}))

\* move(nfa, input, c)->bitset; {} stands for the NULL outset
move(n, input, c) ==
  {n[i + 1].next[1] : i \in
     {j \in input :
        j < Len(n)
        /\ (n[j + 1].edge = c
            \/ (n[j + 1].edge = EDGE_CHARACTER_CLASS
                /\ n[j + 1].complement # (c \in n[j + 1].bitset)))}}

\* the first position (from 1) of a sequence of booleans that holds TRUE, or
\* 0: a linear search that stops at the first hit
FirstPos(hits) ==
  IF \E k \in 1..Len(hits) : hits[k]
  THEN CHOOSE k \in 1..Len(hits) : hits[k] /\ \A l \in 1..(k - 1) : ~hits[l]
  ELSE 0

\* dfaChar with the in_next flag lost: a label bitset is pushed for c even
\* when c was added to the label of an existing transition
dfaCharUnflagged(n, d, di, c) ==
  LET moved == move(n, d.dfa[di + 1].bitset, c)
      dj == epsilon_closure(n, moved)
      k == FirstPos([i \in 1..Len(d.dfa) |->
                       bitset_equals(d.dfa[i].bitset, dj)])
      unique == k = 0
      j == IF unique THEN 0
           ELSE FirstPos([i \in 1..Len(d.dfa[di + 1].next) |->
                            d.dfa[di + 1].next[i] = k - 1])
      in_next == j # 0
      d1 == IF unique THEN d.dfa
            ELSE IF in_next
            THEN [d.dfa EXCEPT ![di + 1].chars[j] = @ \cup {c}]
            ELSE [d.dfa EXCEPT ![di + 1].next = Append(@, k - 1)]
      d2 == [d1 EXCEPT ![di + 1].chars = Append(@, {c})]
      d3 == IF unique
            THEN Append([d2 EXCEPT ![di + 1].next = Append(@, Len(d2))],
                        NewDfaNode(dj))
            ELSE d2
  IN  IF moved = {} THEN d
      ELSE [dfa |-> d3,
            work |-> IF unique THEN Append(d.work, Len(d2)) ELSE d.work]

\* The body of for (char c = 1; c < 0x7F; ++c) in nfa_to_dfa for one c:
\* d is [dfa, work], di the index of the node popped from work.
dfaChar(n, d, di, c) ==
  LET moved == move(n, d.dfa[di + 1].bitset, c)
      dj == epsilon_closure(n, moved)
      k == FirstPos([i \in 1..Len(d.dfa) |->
                       bitset_equals(d.dfa[i].bitset, dj)])
      unique == k = 0
      j == IF unique THEN 0
           ELSE FirstPos([i \in 1..Len(d.dfa[di + 1].next) |->
                            d.dfa[di + 1].next[i] = k - 1])
      in_next == j # 0
      \* the search of dfa: reuse dfa.data[k - 1]
      d1 == IF unique THEN d.dfa
            ELSE IF in_next
            THEN [d.dfa EXCEPT ![di + 1].chars[j] = @ \cup {c}]
            ELSE [d.dfa EXCEPT ![di + 1].next = Append(@, k - 1)]
      d2 == IF in_next THEN d1
            ELSE [d1 EXCEPT ![di + 1].chars = Append(@, {c})]
      d3 == IF unique
            THEN Append([d2 EXCEPT ![di + 1].next = Append(@, Len(d2))],
                        NewDfaNode(dj))
            ELSE d2
  IN  IF moved = {} THEN d
      ELSE [dfa |-> d3,
            work |-> IF unique THEN Append(d.work, Len(d2)) ELSE d.work]

RECURSIVE dfaChars(_, _, _, _, _)
\* the iterations c = lo, lo + 1, .., hi of the character loop, in that
\* order (the range is halved to keep the evaluation shallow)
dfaChars(n, d, di, lo, hi) ==
  IF lo > hi THEN d
  ELSE IF lo = hi THEN dfaChar(n, d, di, lo)
  ELSE LET mid == (lo + hi) \div 2
           half == dfaChars(n, d, di, lo, mid)
       IN  IF Len(half.dfa) = 0 THEN half  \* never: dfa holds d0
           ELSE dfaChars(n, half, di, mid + 1, hi)

\* one iteration of while (work.length > 0)
dfaWork(n, d, ident) ==
  LET di == d.work[Len(d.work)]
      popped == [dfa |-> [d.dfa EXCEPT ![di + 1].id = ident],
                 work |-> SubSeq(d.work, 1, Len(d.work) - 1)]
  IN  dfaChars(n, popped, di, 1, CODE_LIMIT - 1)

\* do_goto(node, c): the target (a dfa index) or NULL
do_goto(node, c) ==
  LET k == FirstPos([i \in 1..Len(node.chars) |-> c \in node.chars[i]])
  IN  IF k = 0 THEN NULL ELSE node.next[k]

(***************************************************************************)
(* Minimization                                                            *)
(***************************************************************************)
\* lines 640-650: the initial partition fields
initialPartition(d) ==
  [k \in 1..Len(d) |->
     [d[k] EXCEPT !.partition = IF Len(d[k].next) = 0 THEN 0 ELSE 1]]

\* the members of d (as dfa indices, in order) whose partition field is p
RECURSIVE membersOf(_, _, _)
membersOf(d, p, k) ==
  IF k > Len(d) THEN <<>>
  ELSE (IF d[k].partition = p THEN <<k - 1>> ELSE <<>>) \o membersOf(d, p, k + 1)

\* lines 671-692: some c in 0..126 tells dij from first
distinguishable(d, first, dij) ==
  \E c \in 0..(CODE_LIMIT - 1) :
    LET goto_first == do_goto(d[first + 1], c)
        goto_dij == do_goto(d[dij + 1], c)
    IN  \/ (goto_first = NULL) # (goto_dij = NULL)
        \/ /\ goto_first # NULL
           /\ goto_dij # NULL
           /\ d[goto_first + 1].partition # d[goto_dij + 1].partition

\* lines 666-693: the loop over j = 1 .. pi->length - 1.  r is
\* [dfa, new_partition, removals]; nparts is partitions.length.
RECURSIVE refineMembers(_, _, _, _, _)
refineMembers(r, list, first, j, nparts) ==
  IF j >= Len(list) THEN r
  ELSE LET dij == list[j + 1]
       IN  IF dij = NULL THEN refineMembers(r, list, first, j + 1, nparts)
           ELSE IF distinguishable(r.dfa, first, dij)
           THEN refineMembers(
                  [dfa |-> [r.dfa EXCEPT ![dij + 1].partition = nparts],
                   new_partition |-> Append(r.new_partition, dij),
                   removals |-> Append(r.removals, j)],
                  list, first, j + 1, nparts)
           ELSE refineMembers(r, list, first, j + 1, nparts)

\* lines 697-701: for (j = 0; j < removals.length; ++j) pi->data[j] = NULL
applyRemovals(list, removals) ==
  [k \in 1..Len(list) |-> IF k - 1 < Len(removals) THEN NULL ELSE list[k]]

\* one iteration of the loop of lines 652-711 over a non-empty partition:
\* [dfa, partitions]
refine(d, parts, i) ==
  LET list == parts[i + 1]
      r == refineMembers([dfa |-> d, new_partition |-> <<>>, removals |-> <<>>],
                         list, list[1], 1, Len(parts))
      pushed == IF Len(r.new_partition) > 0
                THEN Append(parts, r.new_partition)
                ELSE parts
  IN  [dfa |-> r.dfa,
       partitions |-> [pushed EXCEPT ![i + 1] = applyRemovals(list, r.removals)]]

\* lines 730-743: the transitions of the node built from cur_node.  t is
\* [chars, next], next being the vector `next` of target partitions.
RECURSIVE collapseTransitions(_, _, _, _)
collapseTransitions(d, cur, j, t) ==
  IF j > Len(cur.next) THEN t
  ELSE LET target == d[cur.next[j] + 1].partition
           in_next == \E k \in 1..Len(t.next) : t.next[k] = target
       IN  collapseTransitions(d, cur, j + 1,
             IF in_next THEN t
             ELSE [chars |-> Append(t.chars, cur.chars[j]),
                   next |-> Append(t.next, target)])

\* lines 722-724: the first non-null member of a partition list
firstMember(list) == list[FirstPos([j \in 1..Len(list) |-> list[j] # NULL])]

\* lines 717-751 for partition i; result.data[i]->next.data[j] is
\* result.data[pointers.data[i]->data[j]], so next holds result indices
collapseNode(d, parts, i) ==
  LET cur == d[firstMember(parts[i + 1]) + 1]
      t == collapseTransitions(d, cur, 1, [chars |-> <<>>, next |-> <<>>])
  IN  [bitset |-> cur.bitset, id |-> FIRST_ID + i, next |-> t.next,
       chars |-> t.chars, partition |-> UNINIT, index |-> UNINIT]

collapse(d, parts) == [k \in 1..Len(parts) |-> collapseNode(d, parts, k - 1)]

\* a partition list with no non-null member: reading its representative
\* reads outside the list
NoMember(list) == \A k \in 1..Len(list) : list[k] = NULL

(***************************************************************************)
(* Table emission                                                          *)
(***************************************************************************)
\* lines 782-793: what is printed for node and code c, in order
RECURSIVE cellsFor(_, _, _, _)
cellsFor(d, node, c, j) ==
  IF j > Len(node.next) THEN <<>>
  ELSE (IF c \in node.chars[j] THEN <<d[node.next[j] + 1].index>> ELSE <<>>)
       \o cellsFor(d, node, c, j + 1)

cells(d, node, c) ==
  LET found == cellsFor(d, node, c, 1)
  IN  IF Len(found) = 0 THEN <<0>> ELSE found

RECURSIVE rowFrom(_, _, _, _)
\* the cells printed for c = lo, .., hi, in that order (halved as above)
rowFrom(d, node, lo, hi) ==
  IF lo > hi THEN <<>>
  ELSE IF lo = hi THEN cells(d, node, lo)
  ELSE LET mid == (lo + hi) \div 2
       IN  rowFrom(d, node, lo, mid) \o rowFrom(d, node, mid + 1, hi)

\* emit_dfa_state_table: the rows of cells, row 0 first
emit_dfa_state_table(d) ==
  <<[c \in 1..CODE_LIMIT |-> -1]>>
  \o [k \in 1..Len(d) |-> rowFrom(d, d[k], 0, CODE_LIMIT - 1)]

(***************************************************************************)
(* main(): thompson, nfa_to_dfa, minimize_dfa, emit_dfa_state_table        *)
(***************************************************************************)
\* the characters of the enumerated sources
SrcAlphabet == {CH.a, CH.b, CH.pipe, CH.star, CH.lparen, CH.rparen}

\* the round-trip scenarios of the specification, the regex main() compiles,
\* and sources longer than MaxLen
Scenarios ==
  { <<CH.a, CH.b, CH.c>>,                                    \* abc
    <<CH.a, CH.star>>,                                        \* a*
    <<CH.lbracket, CH.zero, CH.dash, CH.nine, CH.rbracket, CH.plus>>,  \* [0-9]+
    <<CH.dot>>,                                               \* .
    <<CH.carat, CH.a, CH.dollar>>,                            \* ^a$
    <<CH.a, CH.a, CH.b>>,                                     \* aab
    <<CH.a, CH.b, CH.pipe, CH.c, CH.b>>,                      \* ab|cb
    <<CH.lbracket, CH.a, CH.b, CH.rbracket, CH.pipe, CH.b, CH.c>>,  \* [ab]|bc
    <<CH.a, CH.rbracket>>,                                    \* a]
    <<CH.a, CH.carat>>,                                       \* a^
    <<CH.plus, CH.a>>,                                        \* +a
    <<CH.question>>,                                          \* ?
    <<CH.a, CH.dollar, CH.rparen>>,                           \* a$)
    <<CH.a, CH.backslash>>,                                   \* a\
    <<CH.lbracket, CH.a, CH.b, CH.rbracket, CH.star, CH.c>>,  \* [ab]*c
    <<CH.carat, CH.lbracket, CH.space, CH.backslash, CH.t, CH.rbracket, CH.star,
      CH.hash, CH.lbracket, CH.zero, CH.dash, CH.nine, CH.rbracket, CH.plus,
      CH.dot, CH.star, CH.dollar>> }                          \* main()'s nfa2

Sources == Scenarios \cup Strings(SrcAlphabet, MaxLen)

NoDfa == <<>>

Init ==
  /\ src \in Sources
  /\ pc = "thompson"
  /\ lx = LexInit(Append(src, CH.nul))
  /\ nfa = <<>>
  /\ dfa = NoDfa
  /\ work = <<>>
  /\ id = FIRST_ID
  /\ partitions = <<>>
  /\ pi = 0
  /\ result = NoDfa
  /\ table = <<>>

\* thompson(): returns the NFA, or the process exits, or its behaviour is
\* undefined (a null or unassigned pointer is dereferenced, the lexer reads
\* behind the terminating NUL)
Thompson ==
  /\ pc = "thompson"
  /\ LET r == thompson(Append(src, CH.nul))
     IN  /\ pc' = IF r.status = "ok" THEN "nfa_to_dfa" ELSE r.status
         /\ nfa' = IF r.status = "ok" THEN r.nfa ELSE nfa
  /\ UNCHANGED <<src, lx, dfa, work, id, partitions, pi, result, table>>

\* lines 524-533
DfaStart ==
  /\ pc = "nfa_to_dfa"
  /\ dfa' = <<NewDfaNode(epsilon_closure(nfa, {0}))>>
  /\ work' = <<0>>
  /\ id' = FIRST_ID
  /\ pc' = "work"
  /\ UNCHANGED <<src, lx, nfa, partitions, pi, result, table>>

\* lines 534-580, one iteration
DfaWork ==
  /\ pc = "work"
  /\ Len(work) > 0
  /\ LET d == dfaWork(nfa, [dfa |-> dfa, work |-> work], id)
     IN  dfa' = d.dfa /\ work' = d.work
  /\ id' = id + 1
  /\ UNCHANGED <<src, pc, lx, nfa, partitions, pi, result, table>>

\* lines 581-584
DfaFinish ==
  /\ pc = "work"
  /\ Len(work) = 0
  /\ dfa' = [k \in 1..Len(dfa) |-> [dfa[k] EXCEPT !.index = k - 1]]
  /\ pc' = "minimize"
  /\ UNCHANGED <<src, lx, nfa, work, id, partitions, pi, result, table>>

\* lines 634-650
MinimizeInit ==
  /\ pc = "minimize"
  /\ dfa' = initialPartition(dfa)
  /\ partitions' = <<membersOf(initialPartition(dfa), 0, 1),
                     membersOf(initialPartition(dfa), 1, 1)>>
  /\ pi' = 0
  /\ pc' = "refine"
  /\ UNCHANGED <<src, lx, nfa, work, id, result, table>>

\* lines 652-711, one iteration.  On an empty list, first = pi->data[0] reads
\* through the null data pointer of an empty vector; the value is not used
\* (the loop over j does not run), so a build either faults (RefineFault) or
\* goes on.
RefineStep ==
  /\ pc = "refine"
  /\ pi < Len(partitions)
  /\ IF Len(partitions[pi + 1]) = 0
     THEN UNCHANGED <<dfa, partitions>>
     ELSE LET r == refine(dfa, partitions, pi)
          IN  dfa' = r.dfa /\ partitions' = r.partitions
  /\ pi' = pi + 1
  /\ UNCHANGED <<src, pc, lx, nfa, work, id, result, table>>

RefineFault ==
  /\ pc = "refine"
  /\ pi < Len(partitions)
  /\ Len(partitions[pi + 1]) = 0
  /\ pc' = "fault"
  /\ UNCHANGED <<src, lx, nfa, dfa, work, id, partitions, pi, result, table>>

\* lines 712-752.  The search for the first non-null member of a list that
\* has none reads outside the list (through the null data pointer when the
\* list is empty): the process faults.
Collapse ==
  /\ pc = "refine"
  /\ pi >= Len(partitions)
  /\ IF \E k \in 1..Len(partitions) : NoMember(partitions[k])
     THEN pc' = "fault" /\ UNCHANGED result
     ELSE pc' = "emit" /\ result' = collapse(dfa, partitions)
  /\ UNCHANGED <<src, lx, nfa, dfa, work, id, partitions, pi, table>>

\* main() line 849: the table of the DFA before minimization
EmitTable ==
  /\ pc = "emit"
  /\ table' = emit_dfa_state_table(dfa)
  /\ pc' = "done"
  /\ UNCHANGED <<src, lx, nfa, dfa, work, id, partitions, pi, result>>

Next ==
  \/ Thompson
  \/ DfaStart
  \/ DfaWork
  \/ DfaFinish
  \/ MinimizeInit
  \/ RefineStep
  \/ RefineFault
  \/ Collapse
  \/ EmitTable

Spec == Init /\ [][Next]_vars

(***************************************************************************)
(* The lexer on its own: advance() called again and again on a source.     *)
(* The source is followed in memory by its terminating NUL and then by     *)
(* MaxOver bytes that are not part of the string; a read of those bytes is *)
(* undefined behaviour and can find any value.                             *)
(***************************************************************************)
LexAlphabet == {CH.a, CH.dquote, CH.backslash, CH.lparen}

TailBytes == {CH.nul, CH.a, CH.backslash}

LexSources == Strings(LexAlphabet, MaxLen)

Tails == {tl \in Strings(TailBytes, MaxOver) : Len(tl) = MaxOver}

InitLex ==
  /\ src \in LexSources
  /\ pc = "lex"
  /\ \E tl \in Tails : lx = LexInit(Append(src, CH.nul) \o tl)
  /\ nfa = <<>>
  /\ dfa = NoDfa
  /\ work = <<>>
  /\ id = FIRST_ID
  /\ partitions = <<>>
  /\ pi = 0
  /\ result = NoDfa
  /\ table = <<>>

\* one call of advance(); the call is modelled while every byte it can read
\* (up to state->input[2]) is one of the modelled bytes
LexAdvance ==
  /\ pc = "lex"
  /\ Readable(lx, lx.input)
  /\ lx.m[lx.input] = CH.nul \/ Readable(lx, lx.input + 2)
  /\ lx' = advance(lx)
  /\ UNCHANGED <<src, pc, nfa, dfa, work, id, partitions, pi, result, table>>

NextLex == LexAdvance

SpecLex == InitLex /\ [][NextLex]_vars

(***************************************************************************)
(* Properties                                                              *)
(***************************************************************************)
\* nfa_to_dfa has returned: dfa is the DFA it built
DfaBuilt == pc = "minimize"

\* the refinement loop of minimize_dfa has run to its end
RefinementDone == pc = "refine" /\ pi >= Len(partitions)

\* minimize_dfa has returned: result is the DFA it built
Minimized == pc = "emit"

\* the codes the subset construction tries: for (c = 1; c < 0x7F; ++c)
Codes == 1..(CODE_LIMIT - 1)

\* the positions of the transitions of node whose label contains c
TransitionsOn(node, c) == {j \in 1..Len(node.chars) : c \in node.chars[j]}

\* C1: subset-construction soundness.  In the DFA nfa_to_dfa returns, for
\* every state d and every code c in 1..126, either d has a transition whose
\* label contains c and whose target's nfa_set is exactly
\* closure(move(d.nfa_set, c)), or d has no transition on c and
\* move(d.nfa_set, c) is empty.
C1_SubsetConstructionSound ==
  DfaBuilt =>
    \A k \in 1..Len(dfa) : \A c \in Codes :
      LET moved == move(nfa, dfa[k].bitset, c)
      IN  IF moved = {}
          THEN TransitionsOn(dfa[k], c) = {}
          ELSE \E j \in TransitionsOn(dfa[k], c) :
                 dfa[dfa[k].next[j] + 1].bitset = epsilon_closure(nfa, moved)

\* the NFA nodes with no way out: the end node of a rule
Terminals(n) ==
  {i \in 0..(Len(n) - 1) :
     n[i + 1] # NoNode /\ n[i + 1].next = <<NULL, NULL>>
     /\ n[i + 1].edge = EDGE_EPSILON}

SourceAStar == <<CH.a, CH.star>>

\* C6: accepting-state characterisation.  A state of the DFA nfa_to_dfa
\* returns has no outgoing transitions if and only if its nfa_set contains
\* the NFA's terminal node; for the regex a* the start state is classified
\* accepting, that is, it has no outgoing transitions and the initial
\* partitioning puts it into partition 0.
C6_AcceptingIffNoTransitions ==
  /\ DfaBuilt =>
       \A k \in 1..Len(dfa) :
         (Len(dfa[k].next) = 0) <=> (dfa[k].bitset \cap Terminals(nfa) # {})
  /\ (pc = "refine" /\ src = SourceAStar) => dfa[1].partition = 0

\* C10: partition stability at the end of refinement.  When the refinement
\* loop has finished, any two DFA states with the same partition id agree on
\* every code c in 0..126: do_goto is NULL for both, or non-NULL for both
\* with targets that carry the same partition id.
C10_PartitionsStable ==
  RefinementDone =>
    \A k1, k2 \in 1..Len(dfa) :
      dfa[k1].partition = dfa[k2].partition =>
        ~distinguishable(dfa, k1 - 1, k2 - 1)

\* C5: table faithfulness.  Row 0 of the emitted table is 127 sentinel cells;
\* for every state index d and every code c in 0..126 the cell of row d + 1,
\* column c is target + 1 when d has a transition on c to the state with
\* index target, and 0 when d has no transition on c.
C5_TableFaithful ==
  pc = "done" =>
    /\ Len(table) = Len(dfa) + 1
    /\ table[1] = [c \in 1..CODE_LIMIT |-> -1]
    /\ \A d \in 0..(Len(dfa) - 1) :
         /\ Len(table[d + 2]) = CODE_LIMIT
         /\ \A c \in 0..(CODE_LIMIT - 1) :
              LET target == do_goto(dfa[d + 1], c)
              IN  table[d + 2][c + 1] =
                    IF target = NULL THEN 0 ELSE dfa[target + 1].index + 1

\* A run of a DFA: the state reached from p on code c, NULL once there is no
\* transition.  A state accepts when it has no outgoing transitions, as
\* minimize_dfa classifies it.
Step(d, p, c) == IF p = NULL THEN NULL ELSE do_goto(d[p + 1], c)

Accepts(d, p) == p # NULL /\ Len(d[p + 1].next) = 0

\* the pairs of states the two DFAs reach on the same input string
RECURSIVE ReachPairs(_, _, _, _)
ReachPairs(d1, d2, seen, frontier) ==
  IF frontier = {} THEN seen
  ELSE LET reached == {<<Step(d1, pq[1], c), Step(d2, pq[2], c)>> :
                         pq \in frontier, c \in Codes}
       IN  ReachPairs(d1, d2, seen \cup reached, reached \ seen)

\* C2: minimization preserves language.  For every input string over the
\* codes 1..126, the DFA of nfa_to_dfa run from its state 0 accepts the
\* string iff the DFA minimize_dfa returned, run from the node built for the
\* partition recorded in the original start state, accepts it.
C2_MinimizationPreservesLanguage ==
  Minimized =>
    LET start == <<0, dfa[1].partition>>
    IN  \A pq \in ReachPairs(dfa, result, {start}, {start}) :
          Accepts(dfa, pq[1]) <=> Accepts(result, pq[2])

\* C3: minimality.  No two distinct nodes of the DFA minimize_dfa returned
\* have the same accepting status and, for every code, transitions to the
\* same output nodes.
C3_NoEquivalentOutputStates ==
  Minimized =>
    \A k1, k2 \in 1..Len(result) :
      k1 # k2 =>
        \/ Accepts(result, k1 - 1) # Accepts(result, k2 - 1)
        \/ \E c \in 0..(CODE_LIMIT - 1) :
             do_goto(result[k1], c) # do_goto(result[k2], c)

SourceAOrB == <<CH.a, CH.pipe, CH.b>>

\* C7: collapse keeps every label.  Every code on which the representative
\* of a partition has a transition is in the label of exactly one transition
\* of the output node built from it; for the regex a|b the minimized DFA has
\* exactly 2 states and the start state has one transition, labelled
\* {'a','b'}.
C7_CollapseKeepsLabels ==
  Minimized =>
    /\ \A k \in 1..Len(partitions) :
         LET cur == dfa[firstMember(partitions[k]) + 1]
         IN  \A c \in 0..(CODE_LIMIT - 1) :
               TransitionsOn(cur, c) # {} =>
                 Cardinality(TransitionsOn(result[k], c)) = 1
    /\ src = SourceAOrB =>
         /\ Len(result) = 2
         /\ result[dfa[1].partition + 1].chars = <<{CH.a, CH.b}>>

\* the labels of the transitions of every node of d are pairwise disjoint
LabelsDisjoint(d) ==
  \A k \in 1..Len(d) :
    /\ Len(d[k].chars) = Len(d[k].next)
    /\ \A j1, j2 \in 1..Len(d[k].chars) :
         j1 # j2 => d[k].chars[j1] \cap d[k].chars[j2] = {}

\* C4: determinism of the DFA.  For every node of the DFA nfa_to_dfa returns
\* and every node of the DFA minimize_dfa returns, the label bitsets of its
\* outgoing transitions are pairwise disjoint: at most one transition of
\* the node contains a given code.
C4_LabelsDisjoint ==
  /\ pc \in {"minimize", "refine", "emit", "done", "fault"} => LabelsDisjoint(dfa)
  /\ pc \in {"emit", "done"} => LabelsDisjoint(result)

\* a node of d with several transitions, one of them on several codes
Branching(d) ==
  \E k \in 1..Len(d) :
    /\ Len(d[k].chars) >= 2
    /\ \E j \in 1..Len(d[k].chars) : Cardinality(d[k].chars[j]) >= 2

\* C4 witness: both DFAs have been built and each has a branching node
C4_BranchingDfas == Minimized /\ Branching(dfa) /\ Branching(result)

\* the source has no quote, escape or character class: every character is
\* a token of its own
NoQuoting(s) ==
  \A i \in 1..Len(s) : s[i] \notin {CH.dquote, CH.backslash, CH.lbracket}

\* some parenthesis of s from position i on, read at nesting depth, has no
\* partner
RECURSIVE ParenUnmatched(_, _, _)
ParenUnmatched(s, i, depth) ==
  IF i > Len(s) THEN depth # 0
  ELSE IF s[i] = CH.lparen THEN ParenUnmatched(s, i + 1, depth + 1)
  ELSE IF s[i] = CH.rparen
  THEN depth = 0 \/ ParenUnmatched(s, i + 1, depth - 1)
  ELSE ParenUnmatched(s, i + 1, depth)

\* position i of s is where a concatenation operand has to start
OperandExpectedAt(s, i) == i = 1 \/ s[i - 1] \in {CH.lparen, CH.pipe}

\* a ']' or '^' where an operand is expected ('^' at position 1 is the
\* beginning-of-line anchor), or a postfix operator with no preceding term
StrayToken(s) ==
  \E i \in 1..Len(s) :
    /\ OperandExpectedAt(s, i)
    /\ \/ s[i] \in {CH.rbracket, CH.star, CH.plus, CH.question}
       \/ s[i] = CH.carat /\ i > 1

SyntaxError(s) == NoQuoting(s) /\ (ParenUnmatched(s, 1, 0) \/ StrayToken(s))

\* C8: syntax errors are fatal.  For every source with an unmatched '(' or
\* ')', a ']' or '^' where a concatenation operand is expected, or a postfix
\* operator with no preceding term, thompson() does not return an NFA: once
\* it is over, the compilation has been aborted (undefined behaviour of the
\* parser is counted as an abort here).
C8_SyntaxErrorsFatal ==
  (SyntaxError(src) /\ pc \notin {"thompson", "lex"}) => pc \in {"exit", "ub"}

\* C9: end of input in the lexer.  Under repeated calls of advance() the read
\* position never moves past the terminating NUL of the source, whatever the
\* source ends in.
C9_NeverPastNul == pc = "lex" => lx.input <= Len(src) + 1

\* the positions of list at which the DFA state k is entered
EntriesOf(list, k) == {j \in 1..Len(list) : list[j] = k}

\* C11: partition membership stays consistent.  During refinement (after
\* every outer iteration, and so at its end) every state of the input DFA is
\* a non-null entry of exactly one partition list, entered there once, and
\* that list is the one whose position equals the state's partition field.
C11_MembershipConsistent ==
  pc = "refine" =>
    \A k \in 0..(Len(dfa) - 1) : \A p \in 1..Len(partitions) :
      Cardinality(EntriesOf(partitions[p], k)) =
        IF dfa[k + 1].partition = p - 1 THEN 1 ELSE 0

\* C12: no empty partition is ever dereferenced.  Every partition list the
\* refinement loop is about to visit holds a state at position 0, where its
\* representative is read; when refinement has ended every partition list
\* has a non-null member for the collapse loop to find; and minimize_dfa
\* never faults on a read outside a partition list.
C12_NoEmptyPartitionRead ==
  /\ (pc = "refine" /\ pi < Len(partitions)) =>
       (Len(partitions[pi + 1]) > 0 /\ partitions[pi + 1][1] # NULL)
  /\ RefinementDone => \A k \in 1..Len(partitions) : ~NoMember(partitions[k])
  /\ pc # "fault"

=============================================================================
